---- MODULE Spec2Model ----
(***************************************************************************)
(* A model of deepsaber's training core (src/src/train/model.py):          *)
(*   - the architecture builders and their choice between keras.Model and  *)
(*     AVSModel,                                                            *)
(*   - AVSModel.__init__, train_step, test_step, update_metrics,           *)
(*     word2word_vec, word_vec2word, avs_embedding,                        *)
(*   - save_model.                                                         *)
(*                                                                         *)
(* Tensors are records [shape, data]: data is the row-major sequence of    *)
(* the elements, so that a reshape keeps data and changes shape, as in     *)
(* TensorFlow/numpy.  Elements of a tensor of numbers are integers.  An    *)
(* element of an l2-normalised tensor is a pair <<x, n>> standing for      *)
(* x / sqrt(n); a cosine score is a pair <<s, d>> in lowest terms standing *)
(* for sign(s) * sqrt(|s| / d).  Floating-point rounding is not modelled.  *)
(***************************************************************************)
EXTENDS Integers, Sequences, FiniteSets, TLC

(* ------------------------------ bounds --------------------------------- *)
\* largest batch size B of a step's data
MaxB == 2
\* largest window length T of a step's data
MaxT == 2
\* AVS_proxy_ratio is p / RatioDen for p in 0..RatioDen
RatioDen == 2
\* number of train/test steps a run takes before it stops
MaxSteps == 2
\* the word models drawn have 1..MaxV vectors
MaxV == 2
\* largest number of rows N of a word array handed to word2word_vec
MaxRows == 4
\* width of a one-hot beat element column
ElemWidth == 2
\* number of LSTM layers a builder stacks (lstm_repetition, or the hp's choice)
LstmLayers == 2
\* largest number of convolution blocks a builder stacks on a stream
MaxRep == 1

(* --------------------------- tensor algebra ---------------------------- *)
RECURSIVE Prod(_)
Prod(s) == IF s = <<>> THEN 1 ELSE Head(s) * Prod(Tail(s))

Front(s) == SubSeq(s, 1, Len(s) - 1)

Last(s) == s[Len(s)]

Tensor(shape, data) == [shape |-> shape, data |-> data]

\* number of columns / rows of a rank-2 tensor, its (i, j) element (1-based)
NRows(t) == t.shape[1]

NCols(t) == t.shape[2]

At(t, i, j) == t.data[(i - 1) * NCols(t) + j]

Row(t, i) == SubSeq(t.data, (i - 1) * NCols(t) + 1, i * NCols(t))

\* tf.reshape(y, [dim, -1]) with dim = prod(shape[:-1])
drop_batch(y) ==
    LET dim == Prod(Front(y.shape))
    IN  Tensor(<<dim, Len(y.data) \div dim>>, y.data)

\* np.zeros(shape)
Zeros(shape) == Tensor(shape, [k \in 1..Prod(shape) |-> 0])

\* np.concatenate([a, b]) of two rank-2 tensors along axis 0
Concat0(a, b) == Tensor(<<NRows(a) + NRows(b), NCols(b)>>, a.data \o b.data)

\* tf.transpose(t, [1, 0])
Transpose(t) ==
    LET r == NRows(t)
        c == NCols(t)
    IN  Tensor(<<c, r>>, [k \in 1..(r * c) |-> At(t, ((k - 1) % r) + 1, ((k - 1) \div r) + 1)])

RECURSIVE SumSq(_)
SumSq(v) == IF v = <<>> THEN 0 ELSE Head(v) * Head(v) + SumSq(Tail(v))

\* tf.nn.l2_normalize(t, axis=-1): x * rsqrt(max(sum(x^2), epsilon)); a zero
\* row stays zero (0 / sqrt(epsilon)), written 0 / sqrt(1)
l2_normalize(t) ==
    LET c == Last(t.shape)
        rowOf(k) == SubSeq(t.data, ((k - 1) \div c) * c + 1, ((k - 1) \div c) * c + c)
        n(k) == IF SumSq(rowOf(k)) = 0 THEN 1 ELSE SumSq(rowOf(k))
    IN  Tensor(t.shape, [k \in 1..Len(t.data) |-> <<t.data[k], n(k)>>])

\* an integer tensor seen as a tensor of x / sqrt(1)
AsNormed(t) == Tensor(t.shape, [k \in 1..Len(t.data) |-> <<t.data[k], 1>>])

RECURSIVE Gcd(_, _)
Gcd(a, b) == IF b = 0 THEN a ELSE Gcd(b, a % b)

\* x / sqrt(n) as a score in lowest terms
Canon(x, n) ==
    IF x = 0 THEN <<0, 1>>
    ELSE LET g == Gcd(x * x, n)
         IN  <<(IF x < 0 THEN -1 ELSE 1) * ((x * x) \div g), n \div g>>

ScoreLess(a, b) == a[1] * b[2] < b[1] * a[2]

\* sum over k of a[k] * b[k], the elements being x / sqrt(n) with one n per vector
RECURSIVE DotNum(_, _)
DotNum(a, b) == IF a = <<>> THEN 0 ELSE Head(a)[1] * Head(b)[1] + DotNum(Tail(a), Tail(b))

\* tf.matmul(a, b) of two rank-2 tensors of normalised elements
MatMul(a, b) ==
    LET r == NRows(a)
        c == NCols(b)
        bt == Transpose(b)
        cell(i, j) == Canon(DotNum(Row(a, i), Row(bt, j)), At(a, i, 1)[2] * At(bt, j, 1)[2])
    IN  Tensor(<<r, c>>, [k \in 1..(r * c) |-> cell(((k - 1) \div c) + 1, ((k - 1) % c) + 1)])

\* the 0-based index of the first largest element of a sequence of numbers
ArgMaxSeq(s) ==
    CHOOSE i \in 0..(Len(s) - 1) :
        /\ \A j \in 1..Len(s) : s[j] <= s[i + 1]
        /\ \A j \in 1..i : s[j] < s[i + 1]

\* tf.argmax(t, axis=-1) of a tensor of numbers
argmax(t) ==
    LET c == Last(t.shape)
        n == Len(t.data) \div c
    IN  Tensor(Front(t.shape), [k \in 1..n |-> ArgMaxSeq(SubSeq(t.data, (k - 1) * c + 1, k * c))])

\* tf.argmax(t, axis=-1) of a rank-2 tensor of scores: the first largest of each row
argmax_scores(t) ==
    LET top(s) == CHOOSE i \in 0..(Len(s) - 1) :
                      /\ \A j \in 1..Len(s) : ~ScoreLess(s[i + 1], s[j])
                      /\ \A j \in 1..i : ScoreLess(s[j], s[i + 1])
    IN  Tensor(<<NRows(t)>>, [i \in 1..NRows(t) |-> top(Row(t, i))])

\* (mutant) the ids are taken as 1-based: row id - 1 is read (row 0 for id 0)
embedding_lookup_OneBased(params, ids) ==
    LET c == NCols(params)
        r(id) == IF id = 0 THEN 1 ELSE id
    IN  Tensor(ids.shape \o <<c>>,
               [k \in 1..(Len(ids.data) * c) |->
                    At(params, r(ids.data[((k - 1) \div c) + 1]), ((k - 1) % c) + 1)])

\* embedding_ops.embedding_lookup_v2(params, ids)
embedding_lookup(params, ids) ==
    LET c == NCols(params)
    IN  Tensor(ids.shape \o <<c>>,
               [k \in 1..(Len(ids.data) * c) |->
                    At(params, ids.data[((k - 1) \div c) + 1] + 1, ((k - 1) % c) + 1)])

(* ------------------------- configuration, data ------------------------- *)
ModelTypes == {"BASELINE", "DDC", "CUSTOM", "TUNE_BASELINE", "TUNE_CLSTM", "TUNE_MLSTM"}

\* config.dataset.beat_elements: the declared discrete beat elements
beat_elements == {"l_lineLayer", "r_lineLayer"}

\* the columns a sequence can declare as outputs (seq.y_cols)
Columns == {"word_id", "word_vec"} \cup beat_elements

\* the word vectors the data and the word models are drawn from
VecPool == << <<1, 0>>, <<0, 1>>, <<1, 1>>, <<2, 0>>, <<0, 0>>, <<-1, 0>>, <<1, 2>> >>

VecOf(i) == VecPool[i]

NVecs == Len(VecPool)

\* dimensionality of the word vectors (word_model.vectors.shape[-1])
Dim == Len(VecPool[1])

RECURSIVE FlattenVecs(_)
FlattenVecs(vs) == IF vs = <<>> THEN <<>> ELSE Head(vs) \o FlattenVecs(Tail(vs))

\* a gensim KeyedVectors: index2word[i] is the word of row i of vectors
KeyedVectors(words, idx) ==
    [index2word |-> words,
     vectors |-> Tensor(<<Len(idx), Dim>>, FlattenVecs([i \in 1..Len(idx) |-> VecOf(idx[i])]))]

\* the word models of 1..MaxV vectors drawn from the first four vectors of
\* the pool, word i - 1 at row i
AllWordModels ==
    UNION {{KeyedVectors([i \in 1..v |-> i - 1], idx) : idx \in [1..v -> 1..4]} : v \in 1..MaxV}

\* one word model per size: the first v vectors of the pool
SizedWordModels == {KeyedVectors([i \in 1..v |-> i - 1], [i \in 1..v |-> i]) : v \in 1..MaxV}

\* the word model of a training run: words 0 and 1, vectors (1, 0) and (0, 1)
RunWordModels == {KeyedVectors(<<0, 1>>, <<1, 2>>)}

Variants == {1, 2}

OneHot(width, cls) == [k \in 1..width |-> IF k = cls + 1 THEN 1 ELSE 0]

\* the value of column col in a batch of shape [B, T, .]: variant v of the
\* targets or of the network's outputs
Sample(col, B, T, v, nclasses) ==
    LET n == B * T
    IN  IF col = "word_vec"
        THEN Tensor(<<B, T, Dim>>, FlattenVecs([r \in 1..n |-> VecOf(((r + 3 * v) % NVecs) + 1)]))
        ELSE IF col = "word_id"
        THEN Tensor(<<B, T, nclasses>>, FlattenVecs([r \in 1..n |-> OneHot(nclasses, (r + v) % nclasses)]))
        ELSE IF col = "l_lineLayer"
        THEN Tensor(<<B, T, ElemWidth>>, FlattenVecs([r \in 1..n |-> OneHot(ElemWidth, v % ElemWidth)]))
        ELSE Tensor(<<B, T, ElemWidth>>, FlattenVecs([r \in 1..n |-> OneHot(ElemWidth, (r + v) % ElemWidth)]))

Batch(cols, B, T, v, nclasses) == [c \in cols |-> Sample(c, B, T, v, nclasses)]

Put(f, k, v) == [x \in (DOMAIN f) \cup {k} |-> IF x = k THEN v ELSE f[x]]

(* ------------------------------- AVSModel ------------------------------ *)
NoVocab == [loaded |-> FALSE]

\* (mutant) only one row is reserved ahead of the word model's vectors
LoadVocab_OneReserved(wm) ==
    LET embeddings == Concat0(Zeros(<<1, NCols(wm.vectors)>>), wm.vectors)
    IN  [loaded |-> TRUE,
         word_model |-> wm,
         embeddings |-> embeddings,
         normed_embeddings |-> l2_normalize(embeddings)]

\* AVSModel.__init__ after the existence check: the word model is loaded and
\* the table built, rows 0 (MASK) and 1 (UNK) zero
LoadVocab(wm) ==
    LET embeddings == Concat0(Zeros(<<2, NCols(wm.vectors)>>), wm.vectors)
    IN  [loaded |-> TRUE,
         word_model |-> wm,
         embeddings |-> embeddings,
         normed_embeddings |-> l2_normalize(embeddings)]

\* self.word_model[words]: the rows of the words, or a KeyError
HasKey(wm, w) == \E i \in 1..Len(wm.index2word) : wm.index2word[i] = w

IndexOf(wm, w) == CHOOSE i \in 1..Len(wm.index2word) : wm.index2word[i] = w

Lookup(wm, words) ==
    IF \A k \in 1..Len(words) : HasKey(wm, words[k])
    THEN [ok |-> TRUE,
          val |-> Tensor(<<Len(words), NCols(wm.vectors)>>,
                         FlattenVecs([k \in 1..Len(words) |-> Row(wm.vectors, IndexOf(wm, words[k]))]))]
    ELSE [ok |-> FALSE]

\* (mutant) the + 1 is lost
use_len_NoPlusOne(p, n) == (p * n) \div RatioDen

\* int(self.config.training.AVS_proxy_ratio * len(word)) + 1, the ratio being p / RatioDen
use_len(p, n) == ((p * n) \div RatioDen) + 1

\* (mutant) the slice stops two rows early: word[:use_len - 2]
SliceRows_Short(word, k) ==
    LET k2 == IF k < 2 THEN 0 ELSE k - 2
        rows == IF k2 < NRows(word) THEN k2 ELSE NRows(word)
    IN  Tensor(<<rows, NCols(word)>>, SubSeq(word.data, 1, rows * NCols(word)))

\* word[:use_len] of a [N, T] array: python's slice stops at the end
SliceRows(word, k) ==
    LET rows == IF k < NRows(word) THEN k ELSE NRows(word)
    IN  Tensor(<<rows, NCols(word)>>, SubSeq(word.data, 1, rows * NCols(word)))

\* (mutant) the fallback has one zero vector per row instead of one per word
word2word_vec_ZerosPerRow(vocab, p, word) ==
    LET use_word == SliceRows(word, use_len(p, NRows(word)))
        got == Lookup(vocab.word_model, use_word.data)
    IN  IF got.ok
        THEN [word_vec |-> got.val, looked_up |-> NRows(use_word), key_error |-> FALSE]
        ELSE [word_vec |-> Zeros(<<use_word.shape[1], NCols(vocab.word_model.vectors)>>),
              looked_up |-> NRows(use_word), key_error |-> TRUE]

\* AVSModel.word2word_vec; looked_up is the number of rows of use_word
word2word_vec(vocab, p, word) ==
    LET use_word == SliceRows(word, use_len(p, NRows(word)))
        got == Lookup(vocab.word_model, use_word.data)
    IN  IF got.ok
        THEN [word_vec |-> got.val, looked_up |-> NRows(use_word), key_error |-> FALSE]
        ELSE [word_vec |-> Zeros(<<use_word.shape[1] * use_word.shape[2], NCols(vocab.word_model.vectors)>>),
              looked_up |-> NRows(use_word), key_error |-> TRUE]

\* (mutant) the product is taken with the table that was not normalised
word_vec2word_RawTable(vocab, word_vec) ==
    MatMul(l2_normalize(word_vec), Transpose(AsNormed(vocab.embeddings)))

\* AVSModel.word_vec2word: the cosine similarity of every row with every table row
word_vec2word(vocab, word_vec) ==
    LET normed_array == l2_normalize(word_vec)
        transposed == Transpose(vocab.normed_embeddings)
    IN  MatMul(normed_array, transposed)

\* utils.functions.y2action_word: one word per (batch, time) position, made of
\* the classes of the beat elements
y2action_word(y) ==
    LET l == argmax(y["l_lineLayer"])
        r == argmax(y["r_lineLayer"])
    IN  Tensor(l.shape, [k \in 1..Len(l.data) |-> l.data[k] * ElemWidth + r.data[k]])

\* AVSModel.avs_embedding
avs_embedding(vocab, p, y) ==
    IF "word_id" \in DOMAIN y
    THEN embedding_lookup(vocab.embeddings, argmax(y["word_id"]))
    ELSE word2word_vec(vocab, p, y2action_word(y)).word_vec

\* (mutant) the derivation of word_id no longer asks whether word_id is there
DeriveIdCond_Always(y) == "word_vec" \in DOMAIN y

\* update_metrics, line 123: derive word_id from word_vec
DeriveIdCond(y) == "word_vec" \in DOMAIN y /\ "word_id" \notin DOMAIN y

\* (mutant) the beat elements also trigger the derivation in training steps
DeriveVecCond_AnyStep(y, train) ==
    /\ "word_id" \in DOMAIN y \/ beat_elements \subseteq DOMAIN y
    /\ "word_vec" \notin DOMAIN y

\* update_metrics, lines 126-127: derive word_vec from word_id or the beat elements
DeriveVecCond(y, train) ==
    /\ "word_id" \in DOMAIN y \/ (beat_elements \subseteq DOMAIN y /\ ~train)
    /\ "word_vec" \notin DOMAIN y

\* (mutant) the vector metrics are guarded by the wrong key
VectorMetricsCond_OnId(y) == "word_id" \in DOMAIN y

\* update_metrics, line 131
VectorMetricsCond(y) == "word_vec" \in DOMAIN y

\* update_metrics, line 134
IdMetricsCond(y) == "word_id" \in DOMAIN y

Write(side, d, k) == [side |-> side, key |-> k, present |-> k \in DOMAIN d]

\* whether y_pred holds what the derivation reads from it: its word_vec for
\* word_vec2word, its word_id or else its beat elements for avs_embedding
PredSourceOk(y_pred, toId, toVec) ==
    IF toId THEN "word_vec" \in DOMAIN y_pred
    ELSE IF toVec THEN "word_id" \in DOMAIN y_pred \/ beat_elements \subseteq DOMAIN y_pred
    ELSE TRUE

\* AVSModel.update_metrics, statement by statement: the compiled metrics are
\* updated, the target's entry is derived, then the prediction's, then the
\* vector metrics and then the discrete metrics are updated.  A read of an
\* entry y_pred does not hold raises KeyError there: what was written and
\* updated before stays.  The result holds the two mappings as the call left
\* them, the writes made in order, the metric families updated and the
\* arguments each was updated with.
update_metrics(vocab, p, y_pred, y, train) ==
    LET toId == DeriveIdCond(y)
        toVec == ~toId /\ DeriveVecCond(y, train)
        srcOk == PredSourceOk(y_pred, toId, toVec)
        y1 == IF toId THEN Put(y, "word_id", word_vec2word(vocab, drop_batch(y["word_vec"])))
              ELSE IF toVec THEN Put(y, "word_vec", avs_embedding(vocab, p, y))
              ELSE y
        p1 == IF toId /\ srcOk
              THEN Put(y_pred, "word_id", word_vec2word(vocab, drop_batch(y_pred["word_vec"])))
              ELSE IF toVec /\ srcOk THEN Put(y_pred, "word_vec", avs_embedding(vocab, p, y_pred))
              ELSE y_pred
        key == IF toId THEN "word_id" ELSE "word_vec"
        writes == IF toId \/ toVec
                  THEN <<Write("y", y, key)>> \o (IF srcOk THEN <<Write("y_pred", y_pred, key)>> ELSE <<>>)
                  ELSE <<>>
        vecOn == srcOk /\ VectorMetricsCond(y1)
        vecOk == vecOn => "word_vec" \in DOMAIN p1
        idOn == srcOk /\ vecOk /\ IdMetricsCond(y1)
        idOk == idOn => "word_id" \in DOMAIN p1
    IN  [error |-> IF srcOk /\ vecOk /\ idOk THEN "none" ELSE "KeyError",
         y |-> y1,
         y_pred |-> p1,
         writes |-> writes,
         updated |-> {"compiled"}
                     \cup (IF vecOn /\ vecOk THEN {"vector"} ELSE {})
                     \cup (IF idOn /\ idOk THEN {"id"} ELSE {}),
         vector_args |-> IF vecOn /\ vecOk THEN <<y1["word_vec"], p1["word_vec"]>> ELSE <<>>,
         id_args |-> IF idOn /\ idOk
                     THEN <<drop_batch(y1["word_id"]), drop_batch(p1["word_id"])>> ELSE <<>>]

(* ------------------------ architecture builders ------------------------ *)
\* what a builder hands to the constructor: the class, the Input layers'
\* batch_size (0 for None) and the stateful flag of each of its LSTM layers
Plan(cls, stateful, config, lstm_stateful, lstm_layers) ==
    [cls |-> cls,
     stateful |-> stateful,
     batch_size |-> IF stateful THEN config.generation_batch_size ELSE 0,
     lstm |-> [i \in 1..lstm_layers |-> lstm_stateful]]

\* the non-tuning builders stack config.training.lstm_repetition LSTM layers
baseline_model(stateful, config) ==
    Plan(IF stateful \/ config.AVS_proxy_ratio = 0 THEN "Model" ELSE "AVSModel",
         stateful, config, stateful, LstmLayers)

ddc_model(stateful, config) ==
    Plan(IF stateful \/ config.AVS_proxy_ratio = 0 THEN "Model" ELSE "AVSModel",
         stateful, config, stateful, LstmLayers)

\* (mutant) the builder no longer looks at AVS_proxy_ratio
custom_model_IgnoresRatio(stateful, config) ==
    Plan(IF stateful THEN "Model" ELSE "AVSModel", stateful, config, stateful, LstmLayers)

custom_model(stateful, config) ==
    Plan(IF stateful \/ config.AVS_proxy_ratio = 0 THEN "Model" ELSE "AVSModel",
         stateful, config, stateful, LstmLayers)

\* the tuning builders return build_model(hp, use_avs_model); hp is the
\* number of LSTM layers the hyperparameters choose
clstm_tuning_model(stateful, config, hp, use_avs_model) ==
    Plan(IF stateful \/ config.AVS_proxy_ratio = 0 THEN "Model" ELSE "AVSModel",
         stateful, config, stateful, hp)

multi_lstm_tuning_model(stateful, config, hp, use_avs_model) ==
    Plan(IF stateful \/ config.AVS_proxy_ratio = 0 THEN "Model"
         ELSE IF use_avs_model THEN "AVSModel" ELSE "Model",
         stateful, config, stateful, hp)

\* its LSTM layers are built without the stateful argument
trivial_tuning_model(stateful, config, hp, use_avs_model) ==
    Plan("Model", stateful, config, FALSE, hp)

TuningTypes == {"TUNE_BASELINE", "TUNE_CLSTM", "TUNE_MLSTM"}

\* get_architecture_fn(config)(seq, stateful, config), and for the tuning
\* architectures the call of the build_model closure it returns
get_architecture_fn(config, stateful, hp, use_avs_model) ==
    CASE config.model_type = "BASELINE" -> baseline_model(stateful, config)
      [] config.model_type = "DDC" -> ddc_model(stateful, config)
      [] config.model_type = "CUSTOM" -> custom_model(stateful, config)
      [] config.model_type = "TUNE_BASELINE" -> trivial_tuning_model(stateful, config, hp, use_avs_model)
      [] config.model_type = "TUNE_CLSTM" -> clstm_tuning_model(stateful, config, hp, use_avs_model)
      [] config.model_type = "TUNE_MLSTM" -> multi_lstm_tuning_model(stateful, config, hp, use_avs_model)

\* the input streams of a model: its categorical and its regression columns
Streams == {"cat", "reg"}

NoBlocks == [cat |-> <<>>, reg |-> <<>>, end |-> <<>>]

\* the blocks of causal Conv1D layers a builder stacks, each block the
\* sequence of its kernel sizes: on the categorical stream, on the regression
\* stream, and after the LSTM layers.
\*   custom_model: config.training.cnn_repetition blocks of kernels [3, 7] on
\*     the regression stream only;
\*   clstm_tuning_model: cat_cnn_repetition and reg_cnn_repetition blocks of
\*     the kernels of cnn_kernel_size ('1', '3', '35' or '37', one kernel per
\*     digit), and end_cnn_repetition blocks of end_cnn_kernel_size ('1' or
\*     '3') after the LSTM layers;
\*   the other builders: none.
\* The repetitions are 0..MaxRep.
ConvBlocks(model_type) ==
    CASE model_type = "CUSTOM" ->
             {[cat |-> <<>>, reg |-> [i \in 1..r |-> <<3, 7>>], end |-> <<>>] : r \in 0..MaxRep}
      [] model_type = "TUNE_CLSTM" ->
             {[cat |-> [i \in 1..rc |-> ks], reg |-> [i \in 1..rr |-> ks], end |-> [i \in 1..re |-> ke]] :
                  rc \in 0..MaxRep, rr \in 0..MaxRep, re \in 0..MaxRep,
                  ks \in {<<1>>, <<3>>, <<3, 5>>, <<3, 7>>}, ke \in {<<1>>, <<3>>}}
      [] OTHER -> {NoBlocks}

(* The value of a layer at a step is a sequence of integers.  An input x is  *)
(* <<x>> and the zero a causal convolution pads with is <<0>>.  Filters and  *)
(* cells are left uninterpreted: the value of a layer lists, between         *)
(* negative marks, the values it is computed from, so that two values are    *)
(* equal exactly when they are computed from the same values.                *)

\* layers.Conv1D(kernel_size=k, padding='causal') for each k of kernels, and
\* their concatenation, on the steps of one call: step t is computed from
\* steps t-k+1..t of that call, and from zeros ahead of the call's first step
causal_conv(xs, kernels) ==
    LET window(t, k) == FlattenVecs([i \in 1..k |-> <<-2>> \o (IF t - k + i >= 1 THEN xs[t - k + i] ELSE <<0>>)])
    IN  [t \in 1..Len(xs) |->
            FlattenVecs([j \in 1..Len(kernels) |-> <<-1, kernels[j]>> \o window(t, kernels[j])])]

\* the blocks of a stream, one after the other
RECURSIVE conv_blocks(_, _)
conv_blocks(xs, blocks) ==
    IF blocks = <<>> THEN xs ELSE conv_blocks(causal_conv(xs, Head(blocks)), Tail(blocks))

\* layers.LSTM(return_sequences=True) run from state h over the steps of one
\* call: the state after each step, computed from the state before it and
\* the step's input
RECURSIVE lstm(_, _)
lstm(xs, h) ==
    IF xs = <<>> THEN <<>>
    ELSE LET h1 == <<-3>> \o h \o <<-4>> \o Head(xs)
         IN  <<h1>> \o lstm(Tail(xs), h1)

\* the zero state an LSTM layer starts from
ZeroState == <<>>

\* the LSTM layers i.. of a model on the steps of one call: a stateful layer
\* starts from the state it kept and keeps its last state, any other layer
\* starts from the zero state
RECURSIVE run_lstm_layers(_, _, _, _)
run_lstm_layers(flags, states, xs, i) ==
    IF i > Len(flags) THEN [out |-> xs, states |-> states]
    ELSE LET ys == lstm(xs, IF flags[i] THEN states[i] ELSE ZeroState)
         IN  run_lstm_layers(flags, IF flags[i] THEN [states EXCEPT ![i] = Last(ys)] ELSE states, ys, i + 1)

\* model(xs): one call of a built model on the streams cols, each fed the
\* steps xs: the streams' blocks, their concatenation, the LSTM layers, the
\* blocks after them
call_model(plan, blocks, cols, states, xs) ==
    LET stream(c) == IF c \in cols THEN conv_blocks(xs, blocks[c]) ELSE [t \in 1..Len(xs) |-> <<>>]
        merged == [t \in 1..Len(xs) |-> <<-5>> \o stream("cat")[t] \o <<-6>> \o stream("reg")[t]]
        r == run_lstm_layers(plan.lstm, states, merged, 1)
    IN  [out |-> conv_blocks(r.out, blocks.end), states |-> r.states]

\* one call per step, the model keeping its states from call to call
RECURSIVE step_by_step(_, _, _, _, _)
step_by_step(plan, blocks, cols, states, xs) ==
    IF xs = <<>> THEN <<>>
    ELSE LET r == call_model(plan, blocks, cols, states, <<Head(xs)>>)
         IN  <<r.out[1]>> \o step_by_step(plan, blocks, cols, r.states, Tail(xs))

NoModel == [cls |-> "none", stateful |-> FALSE, batch_size |-> 0, lstm |-> <<>>, vocab |-> NoVocab]

\* (mutant) the constructor no longer checks the artifact
VocabMissing_Unchecked(exists) == FALSE

\* AVSModel.__init__, line 70: the check of the artifact
VocabMissing(exists) == ~exists

\* Model(...) / AVSModel(...): the model, the error raised, and what the
\* constructor did with the vocabulary artifact
Construct(plan, exists, wm) ==
    IF plan.cls = "AVSModel"
    THEN IF VocabMissing(exists)
         THEN [model |-> NoModel, error |-> "FileNotFoundError", fs |-> {"exists"}]
         ELSE [model |-> [cls |-> "AVSModel", stateful |-> plan.stateful, batch_size |-> plan.batch_size,
                          lstm |-> plan.lstm, vocab |-> LoadVocab(wm)],
               error |-> "none", fs |-> {"exists", "load"}]
    ELSE [model |-> [cls |-> "Model", stateful |-> plan.stateful, batch_size |-> plan.batch_size,
                     lstm |-> plan.lstm, vocab |-> NoVocab],
          error |-> "none", fs |-> {}]

(* -------------------------------- state -------------------------------- *)
VARIABLES
    config,           \* the Config object: model_type, AVS_proxy_ratio (its numerator), batch sizes
    artifact_exists,  \* whether config.dataset.action_word_model_path exists
    word_model_file,  \* the KeyedVectors stored in the artifact
    seq,              \* the training sequence: its y_cols, batch size and window length
    policy,           \* the process-wide keras mixed precision policy
    model,            \* the model being trained
    weights,          \* the version of the trained model's weights
    stateful_model,   \* the model save_model builds, with its copy of the weights
    saved,            \* the artifacts save_model has written
    error,            \* the exception that ended the run, or "none"
    fs_log,           \* what the constructors did with the vocabulary artifact
    pc,               \* where the run is
    steps,            \* number of train/test steps completed
    st,               \* the step in progress, or the last one completed
    fn_in,            \* the arguments of a function application
    fn_out            \* its result

runVars == <<config, artifact_exists, word_model_file, seq, policy, model, weights,
             stateful_model, saved, error, fs_log, pc, steps, st>>

vars == <<config, artifact_exists, word_model_file, seq, policy, model, weights,
          stateful_model, saved, error, fs_log, pc, steps, st, fn_in, fn_out>>

NoStep == [kind |-> "none"]

NoStateful == [built |-> FALSE]

NoCall == [op |-> "none"]

NoResult == [done |-> FALSE]

YCols == (SUBSET Columns) \ {{}}

(* A run is the life cycle train/model.py offers a caller: a model is built *)
(* by the builder get_architecture_fn selects, keras drives its train_step  *)
(* and test_step, and save_model writes it.  It is not main.main():         *)
(* main.py's training block (lines 98-112) is disabled by `train = False`,  *)
(* the create_model it imports is not defined in train/model.py, and        *)
(* main.py's own save_model (lines 130-137) is not modelled.                *)

\* a run from its start: the configuration, the artifact and the sequence
\* are the run's inputs
InitRun(configs, ycols, policies) ==
    /\ config \in configs
    /\ artifact_exists \in BOOLEAN
    /\ word_model_file \in RunWordModels
    /\ seq \in [y_cols : ycols, batch_size : {config.batch_size}, window : {MaxT}]
    /\ policy \in policies
    /\ model = NoModel
    /\ weights = 0
    /\ stateful_model = NoStateful
    /\ saved = {}
    /\ error = "none"
    /\ fs_log = {}
    /\ pc = "start"
    /\ steps = 0
    /\ st = NoStep
    /\ fn_in = NoCall
    /\ fn_out = NoResult

\* training runs: every architecture, ratio and set of output columns,
\* under the mixed precision policy (the global policy save_model resets,
\* line 660)
Init ==
    InitRun([model_type : ModelTypes, AVS_proxy_ratio : 0..RatioDen,
             batch_size : 1..MaxB, generation_batch_size : {1}],
            YCols, {"mixed_float16"})

(* ------------------------------- building ------------------------------ *)
\* get_architecture_fn(config)(seq, False, config): the training model is
\* built non-stateful by the builder of config.training.model_type; a tuning
\* architecture's build_model is called with the trial's hp (LstmLayers
\* layers) and the caller's (or the default) use_avs_model
Build ==
    /\ pc = "start"
    /\ \E use_avs_model \in BOOLEAN :
         LET made == Construct(get_architecture_fn(config, FALSE, LstmLayers, use_avs_model),
                               artifact_exists, word_model_file)
         IN  /\ model' = made.model
             /\ error' = made.error
             /\ fs_log' = fs_log \cup made.fs
             /\ pc' = IF made.error = "none" THEN "ready" ELSE "failed"
    /\ UNCHANGED <<config, artifact_exists, word_model_file, seq, policy, weights,
                   stateful_model, saved, steps, st, fn_in, fn_out>>

(* -------------------------------- steps -------------------------------- *)
\* self(x, training=...): a forward pass with the current weights
Forward(kind, v) ==
    LET B == seq.batch_size
        T == seq.window
        n == NRows(model.vocab.embeddings)
    IN  [kind |-> kind,
         w0 |-> weights,
         y |-> Batch(seq.y_cols, B, T, v, n),
         y_pred |-> Batch(seq.y_cols, B, T, v + 1, n),
         passes |-> 1,
         pred_pass |-> 1,
         pred_w |-> weights,
         used |-> [c \in {"loss", "compiled", "vector", "id"} |-> 0],
         trace |-> <<"forward">>,
         metrics |-> <<>>]

\* train_step, lines 88-92
TrainForward ==
    /\ pc = "ready" /\ model.cls = "AVSModel" /\ steps < MaxSteps
    /\ \E v \in Variants : st' = Forward("train", v)
    /\ pc' = "train_loss"
    /\ UNCHANGED <<config, artifact_exists, word_model_file, seq, policy, model, weights,
                   stateful_model, saved, error, fs_log, steps, fn_in, fn_out>>

\* self.compiled_loss(y, y_pred, ...)
Loss(s) == [s EXCEPT !.used["loss"] = s.pred_pass, !.trace = Append(s.trace, "loss")]

\* train_step, line 93
TrainLoss ==
    /\ pc = "train_loss"
    /\ st' = Loss(st)
    /\ pc' = "train_minimize"
    /\ UNCHANGED <<config, artifact_exists, word_model_file, seq, policy, model, weights,
                   stateful_model, saved, error, fs_log, steps, fn_in, fn_out>>

\* (mutant) the stateful model shares its weights with the trained model
TrainMinimize_SharedWeights ==
    /\ pc = "train_minimize"
    /\ weights' = weights + 1
    /\ st' = [st EXCEPT !.trace = Append(st.trace, "minimize")]
    /\ pc' = "train_metrics"
    /\ stateful_model' = IF stateful_model.built
                         THEN [stateful_model EXCEPT !.weights = weights + 1]
                         ELSE stateful_model
    /\ UNCHANGED <<config, artifact_exists, word_model_file, seq, policy, model,
                   saved, error, fs_log, steps, fn_in, fn_out>>

\* train_step, lines 94-95: _minimize applies the gradients
TrainMinimize ==
    /\ pc = "train_minimize"
    /\ weights' = weights + 1
    /\ st' = [st EXCEPT !.trace = Append(st.trace, "minimize")]
    /\ pc' = "train_metrics"
    /\ UNCHANGED <<config, artifact_exists, word_model_file, seq, policy, model,
                   stateful_model, saved, error, fs_log, steps, fn_in, fn_out>>

\* (mutant) the metrics are computed on a second forward pass
Metrics_SecondPass(s, train) ==
    LET m == update_metrics(model.vocab, config.AVS_proxy_ratio, s.y_pred, s.y, train)
    IN  [s EXCEPT !.passes = 2,
                  !.pred_pass = 2,
                  !.pred_w = weights,
                  !.used = [c \in DOMAIN s.used |-> IF c \in m.updated THEN 2 ELSE s.used[c]],
                  !.trace = s.trace \o <<"forward", "update_metrics">>,
                  !.metrics = m]

\* self.update_metrics(y_pred, y, sample_weight, train) on the step's y_pred;
\* s.y and s.y_pred keep the mappings as the step received them, s.metrics
\* holds them as update_metrics left them
Metrics(s, train) ==
    LET m == update_metrics(model.vocab, config.AVS_proxy_ratio, s.y_pred, s.y, train)
    IN  [s EXCEPT !.used = [c \in DOMAIN s.used |->
                              IF c \in m.updated THEN s.pred_pass ELSE s.used[c]],
                  !.trace = Append(s.trace, "update_metrics"),
                  !.metrics = m]

\* train_step, lines 97-99
TrainMetrics ==
    /\ pc = "train_metrics"
    /\ st' = Metrics(st, TRUE)
    /\ error' = st'.metrics.error
    /\ pc' = IF st'.metrics.error = "none" THEN "ready" ELSE "failed"
    /\ steps' = steps + 1
    /\ UNCHANGED <<config, artifact_exists, word_model_file, seq, policy, model, weights,
                   stateful_model, saved, fs_log, fn_in, fn_out>>

\* test_step, lines 102-105
TestForward ==
    /\ pc = "ready" /\ model.cls = "AVSModel" /\ steps < MaxSteps
    /\ \E v \in Variants : st' = Forward("test", v)
    /\ pc' = "test_loss"
    /\ UNCHANGED <<config, artifact_exists, word_model_file, seq, policy, model, weights,
                   stateful_model, saved, error, fs_log, steps, fn_in, fn_out>>

\* (mutant) the evaluation step applies the gradients too
TestLoss_Minimizes ==
    /\ pc = "test_loss"
    /\ st' = Loss(st)
    /\ weights' = weights + 1
    /\ pc' = "test_metrics"
    /\ UNCHANGED <<config, artifact_exists, word_model_file, seq, policy, model,
                   stateful_model, saved, error, fs_log, steps, fn_in, fn_out>>

\* test_step, lines 106-107
TestLoss ==
    /\ pc = "test_loss"
    /\ st' = Loss(st)
    /\ pc' = "test_metrics"
    /\ UNCHANGED <<config, artifact_exists, word_model_file, seq, policy, model, weights,
                   stateful_model, saved, error, fs_log, steps, fn_in, fn_out>>

\* test_step, lines 109-111
TestMetrics ==
    /\ pc = "test_metrics"
    /\ st' = Metrics(st, FALSE)
    /\ error' = st'.metrics.error
    /\ pc' = IF st'.metrics.error = "none" THEN "ready" ELSE "failed"
    /\ steps' = steps + 1
    /\ UNCHANGED <<config, artifact_exists, word_model_file, seq, policy, model, weights,
                   stateful_model, saved, fs_log, fn_in, fn_out>>

(* ------------------------------ save_model ----------------------------- *)
\* model.get_weights() as to shape: one group of tensors per LSTM layer
weight_shapes(m) == [i \in 1..Len(m.lstm) |-> "lstm"]

\* (mutant) the policy is left as the caller had it
set_policy_Kept(current, name) == current

\* keras.mixed_precision.experimental.set_policy(name): the process-wide policy afterwards
set_policy(current, name) == name

\* (mutant) the plain model is saved before the weights are copied
SavedAfter_PlainFirst(copied) ==
    IF copied THEN {"model.keras", "stateful_model.keras"} ELSE {"model.keras"}

\* lines 665-667: the artifacts written, given whether set_weights succeeded
SavedAfter(copied) == IF copied THEN {"model.keras", "stateful_model.keras"} ELSE {}

\* the hp argument of save_model: 0 for None, or the number of LSTM layers
\* the hyperparameters choose
HpArgs == {0} \cup ((LstmLayers - 1)..LstmLayers)

\* save_model(model, model_path, train_seq, config, hp), lines 658-667
SaveModel ==
    /\ pc = "ready" /\ saved = {} /\ stateful_model = NoStateful
    /\ \E hp \in HpArgs :
         LET policy1 == set_policy(policy, "float32")
             config1 == [config EXCEPT !.batch_size = 1]
             made == Construct(get_architecture_fn(config1, TRUE, hp, TRUE),
                               artifact_exists, word_model_file)
             \* a tuning architecture returns build_model, which only hp calls;
             \* a model object is not callable with (hp, use_avs_model=True)
             called == IF made.error # "none" THEN made.error
                       ELSE IF config.model_type \in TuningTypes /\ hp = 0 THEN "AttributeError"
                       ELSE IF config.model_type \notin TuningTypes /\ hp # 0 THEN "TypeError"
                       ELSE "none"
             \* stateful_model.set_weights(plain_model.get_weights())
             copied == called = "none" /\ weight_shapes(model) = weight_shapes(made.model)
             raised == IF called # "none" THEN called
                       ELSE IF ~copied THEN "ValueError"
                       ELSE "none"
         IN  /\ policy' = policy1
             /\ config' = config1
             /\ fs_log' = fs_log \cup made.fs
             /\ error' = raised
             /\ saved' = SavedAfter(copied)
             /\ IF raised = "none"
                THEN /\ stateful_model' = [built |-> TRUE, model |-> made.model, weights |-> weights,
                                           policy |-> policy1]
                     /\ pc' = "ready"
                ELSE /\ UNCHANGED stateful_model
                     /\ pc' = "failed"
    /\ UNCHANGED <<artifact_exists, word_model_file, seq, model, weights, steps, st, fn_in, fn_out>>

Next ==
    \/ Build
    \/ TrainForward
    \/ TrainLoss
    \/ TrainMinimize
    \/ TrainMetrics
    \/ TestForward
    \/ TestLoss
    \/ TestMetrics
    \/ SaveModel

Spec == Init /\ [][Next]_vars

\* runs whose caller may have any batch sizes and either policy, with word
\* models of every size; the outputs are word vectors
InitSave ==
    /\ config \in [model_type : ModelTypes, AVS_proxy_ratio : {0, RatioDen},
                    batch_size : 1..MaxB, generation_batch_size : 1..MaxB]
    /\ artifact_exists \in BOOLEAN
    /\ word_model_file \in SizedWordModels
    /\ seq = [y_cols |-> {"word_vec"}, batch_size |-> config.batch_size, window |-> MaxT]
    /\ policy \in {"mixed_float16", "float32"}
    /\ model = NoModel
    /\ weights = 0
    /\ stateful_model = NoStateful
    /\ saved = {}
    /\ error = "none"
    /\ fs_log = {}
    /\ pc = "start"
    /\ steps = 0
    /\ st = NoStep
    /\ fn_in = NoCall
    /\ fn_out = NoResult

SpecSave == InitSave /\ [][Next]_vars

(* ------------------------ function applications ----------------------- *)
\* a [N, T] array of words 0, 1, 2, ... in which position bad (if any) holds
\* a word that no word model has
WordArray(N, T, bad) ==
    Tensor(<<N, T>>, [k \in 1..(N * T) |-> IF k = bad THEN MaxV ELSE k % MaxV])

Word2WordVecCalls ==
    {[op |-> "word2word_vec", p |-> p, word |-> WordArray(N, T, bad), word_model |-> wm] :
        p \in 0..RatioDen, N \in 1..MaxRows, T \in 1..MaxT, bad \in 0..MaxRows, wm \in SizedWordModels}

\* update_metrics on targets that hold word_vec, with every vocabulary
UpdateMetricsCalls ==
    {[op |-> "update_metrics", p |-> RatioDen, train |-> train, word_model |-> wm,
      y |-> Batch(cols, B, T, v, Len(wm.index2word) + 2),
      y_pred |-> Batch(cols, B, T, v + 1, Len(wm.index2word) + 2)] :
        train \in BOOLEAN, wm \in AllWordModels,
        cols \in {{"word_vec"}, {"word_vec"} \cup beat_elements, {"word_vec", "word_id"}},
        B \in 1..MaxB, T \in 1..MaxT, v \in {1, 2, 3}}

\* word models that hold parallel vectors and the zero vector
RoundTripWordModels ==
    UNION {{KeyedVectors([i \in 1..v |-> i - 1], idx) : idx \in [1..v -> {1, 2, 4, 5}]} : v \in 1..MaxV}

\* the round trip of row `row` of the vocabulary table through the discrete channel
RoundTripCalls ==
    UNION {{[op |-> "round_trip", p |-> RatioDen, word_model |-> wm, row |-> j] :
                j \in 0..(Len(wm.index2word) + 1)} : wm \in RoundTripWordModels}

\* a window of 1..MaxT steps of inputs 0 or 1, for each architecture, each
\* choice of its convolution blocks and each nonempty set of input streams
CausalCalls ==
    UNION {{[op |-> "causal", p |-> RatioDen, model_type |-> mb[1], blocks |-> mb[2],
             cols |-> cols, xs |-> xs] :
                mb \in UNION {{<<mt, bl>> : bl \in ConvBlocks(mt)} : mt \in ModelTypes},
                cols \in (SUBSET Streams) \ {{}},
                xs \in [1..T -> {<<0>>, <<1>>}]} : T \in 1..MaxT}

\* an AVSModel already built, and the arguments of one call on it
InitFn ==
    /\ fn_in \in Word2WordVecCalls \cup UpdateMetricsCalls \cup RoundTripCalls \cup CausalCalls
    /\ config = [model_type |-> "CUSTOM", AVS_proxy_ratio |-> fn_in.p,
                 batch_size |-> 1, generation_batch_size |-> 1]
    /\ artifact_exists = TRUE
    /\ word_model_file \in RunWordModels
    /\ seq = [y_cols |-> {"word_vec"}, batch_size |-> 1, window |-> MaxT]
    /\ policy = "mixed_float16"
    /\ model = NoModel
    /\ weights = 0
    /\ stateful_model = NoStateful
    /\ saved = {}
    /\ error = "none"
    /\ fs_log = {}
    /\ pc = "call"
    /\ steps = 0
    /\ st = NoStep
    /\ fn_out = NoResult

ApplyWord2WordVec ==
    /\ pc = "call" /\ fn_in.op = "word2word_vec" /\ fn_out = NoResult
    /\ LET r == word2word_vec(LoadVocab(fn_in.word_model), fn_in.p, fn_in.word)
       IN  fn_out' = [done |-> TRUE, raised |-> FALSE, word_vec |-> r.word_vec,
                      looked_up |-> r.looked_up, key_error |-> r.key_error]
    /\ UNCHANGED <<runVars, fn_in>>

ApplyUpdateMetrics ==
    /\ pc = "call" /\ fn_in.op = "update_metrics" /\ fn_out = NoResult
    /\ LET m == update_metrics(LoadVocab(fn_in.word_model), fn_in.p, fn_in.y_pred, fn_in.y, fn_in.train)
       IN  fn_out' = [done |-> TRUE, metrics |-> m]
    /\ UNCHANGED <<runVars, fn_in>>

\* word_vec2word of a table row, then avs_embedding's argmax and lookup of
\* the similarity row
ApplyRoundTrip ==
    /\ pc = "call" /\ fn_in.op = "round_trip" /\ fn_out = NoResult
    /\ LET vocab == LoadVocab(fn_in.word_model)
           v == Tensor(<<1, NCols(vocab.embeddings)>>, Row(vocab.embeddings, fn_in.row + 1))
           similarity == word_vec2word(vocab, v)
           ids == argmax_scores(similarity)
       IN  fn_out' = [done |-> TRUE, v |-> v, similarity |-> similarity, ids |-> ids,
                      back |-> embedding_lookup(vocab.embeddings, ids)]
    /\ UNCHANGED <<runVars, fn_in>>

\* the batch model called once on the window, and the stateful model of the
\* same architecture and weights called once per step, from zero states
ApplyCausal ==
    /\ pc = "call" /\ fn_in.op = "causal" /\ fn_out = NoResult
    /\ LET cfg == [config EXCEPT !.model_type = fn_in.model_type]
           batch_model == get_architecture_fn(cfg, FALSE, LstmLayers, TRUE)
           stateful == get_architecture_fn(cfg, TRUE, LstmLayers, TRUE)
           zeros == [i \in 1..LstmLayers |-> ZeroState]
       IN  fn_out' = [done |-> TRUE,
                      batch |-> call_model(batch_model, fn_in.blocks, fn_in.cols, zeros, fn_in.xs).out,
                      stepwise |-> step_by_step(stateful, fn_in.blocks, fn_in.cols, zeros, fn_in.xs)]
    /\ UNCHANGED <<runVars, fn_in>>

NextFn ==
    \/ ApplyWord2WordVec
    \/ ApplyUpdateMetrics
    \/ ApplyRoundTrip
    \/ ApplyCausal

SpecFn == InitFn /\ [][NextFn]_vars

(* -------------------------------- claims ------------------------------- *)
StepDone == pc \in {"ready", "failed"} /\ st.kind # "none" /\ st.metrics # <<>>

\* C1: with AVS_proxy_ratio = 0 every build, stateful or not and of every
\* architecture, yields a plain Model: no AVSModel is constructed, the
\* vocabulary artifact is neither checked nor loaded, and no missing-vocabulary
\* error is raised, whether or not the artifact exists.
C1_ZeroRatioBuildsPlainModel ==
    config.AVS_proxy_ratio = 0 =>
        /\ model.cls # "AVSModel"
        /\ pc # "start" => model.cls = "Model"
        /\ stateful_model.built => stateful_model.model.cls = "Model"
        /\ fs_log = {}
        /\ error # "FileNotFoundError"

C1_Witness ==
    /\ config.AVS_proxy_ratio = 0
    /\ ~artifact_exists
    /\ config.model_type = "TUNE_MLSTM"
    /\ model.cls = "Model" /\ ~model.stateful
    /\ stateful_model.built /\ stateful_model.model.cls = "Model" /\ stateful_model.model.stateful

\* C2: when the artifact is absent the construction of an AVSModel raises
\* before anything is loaded and before a model exists, so every step runs on
\* an AVSModel that holds its vocabulary table.
C2_MissingVocabularyFailsConstruction ==
    /\ ~artifact_exists =>
          /\ model.cls # "AVSModel"
          /\ "load" \notin fs_log
          /\ "exists" \in fs_log => (error = "FileNotFoundError" /\ pc = "failed")
          /\ st.kind = "none"
    /\ model.cls = "AVSModel" => (artifact_exists /\ model.vocab.loaded)
    /\ st.kind # "none" => (model.cls = "AVSModel" /\ model.vocab.loaded)

C2_Witness ==
    /\ ~artifact_exists
    /\ error = "FileNotFoundError"
    /\ pc = "failed"
    /\ fs_log = {"exists"}
    /\ model = NoModel

\* C3: update_metrics never writes a representation that its mapping already
\* holds: every native entry of the target and of the prediction is left as
\* it was, each mapping is written at most once, and all writes of a step
\* are of one key (one derivation direction).
C3_PresentFormsNotRecomputed ==
    StepDone =>
        LET w == st.metrics.writes
        IN  /\ \A k \in DOMAIN st.y : st.metrics.y[k] = st.y[k]
            /\ \A k \in DOMAIN st.y_pred : st.metrics.y_pred[k] = st.y_pred[k]
            /\ \A i \in 1..Len(w) : ~w[i].present
            /\ \A i, j \in 1..Len(w) : (w[i].key = w[j].key) /\ (i # j => w[i].side # w[j].side)
            /\ DOMAIN st.metrics.y = (DOMAIN st.y) \cup {w[i].key : i \in {i \in 1..Len(w) : w[i].side = "y"}}
            /\ DOMAIN st.metrics.y_pred =
                   (DOMAIN st.y_pred) \cup {w[i].key : i \in {i \in 1..Len(w) : w[i].side = "y_pred"}}

C3_Witness ==
    /\ StepDone
    /\ seq.y_cols = {"word_vec", "l_lineLayer", "r_lineLayer"}
    /\ st.kind = "test"
    /\ Len(st.metrics.writes) = 2
    /\ st.metrics.writes[1].key = "word_id"
    /\ DOMAIN st.metrics.y = Columns

\* C5 as stated: in every step, training or evaluation, a target without
\* word_vec that holds word_id or spans the beat elements gets word_vec
\* derived for the target and the prediction.
C5_Original ==
    StepDone =>
        (("word_vec" \notin DOMAIN st.y
          /\ ("word_id" \in DOMAIN st.y \/ beat_elements \subseteq DOMAIN st.y))
         => ("word_vec" \in DOMAIN st.metrics.y /\ "word_vec" \in DOMAIN st.metrics.y_pred))

\* C5 (amended): when the target has no word_vec, word_vec is derived for the
\* target and the prediction exactly when the target holds word_id, or the
\* step is an evaluation step and the target spans the beat elements; a
\* training step on beat elements alone derives nothing.
C5_DeriveVecOnlyInEvaluation ==
    StepDone =>
        LET trigger == \/ "word_id" \in DOMAIN st.y
                       \/ (st.kind = "test" /\ beat_elements \subseteq DOMAIN st.y)
        IN  "word_vec" \notin DOMAIN st.y =>
               /\ trigger <=> "word_vec" \in DOMAIN st.metrics.y
               /\ trigger <=> "word_vec" \in DOMAIN st.metrics.y_pred
               /\ trigger <=> (Len(st.metrics.writes) = 2 /\ st.metrics.writes[1].key = "word_vec")

C5_Witness ==
    /\ StepDone
    /\ st.kind = "test"
    /\ seq.y_cols = beat_elements
    /\ "word_vec" \in DOMAIN st.metrics.y
    /\ "word_vec" \in DOMAIN st.metrics.y_pred

\* C6: after the derivations the vector metrics are updated exactly when
\* word_vec is there for the target and the prediction, the discrete metrics
\* exactly when word_id is there for both, each with the two entries of its
\* key, and update_metrics reads no entry that is missing.
C6_MetricsUpdatedIffAvailable ==
    StepDone =>
        LET m == st.metrics
            vec == "word_vec" \in DOMAIN m.y /\ "word_vec" \in DOMAIN m.y_pred
            ids == "word_id" \in DOMAIN m.y /\ "word_id" \in DOMAIN m.y_pred
        IN  /\ m.error = "none"
            /\ "vector" \in m.updated <=> vec
            /\ "id" \in m.updated <=> ids
            /\ m.vector_args = IF vec THEN <<m.y["word_vec"], m.y_pred["word_vec"]>> ELSE <<>>
            /\ Len(m.id_args) = IF ids THEN 2 ELSE 0
            /\ ids => /\ m.id_args[1].data = m.y["word_id"].data
                      /\ m.id_args[2].data = m.y_pred["word_id"].data

C6_Witness ==
    /\ StepDone
    /\ st.kind = "test"
    /\ seq.y_cols = beat_elements
    /\ st.metrics.updated = {"compiled", "vector"}

\* C7: a step makes one forward pass, with the weights the step started
\* with, and its loss, its compiled metrics and its vector and discrete
\* metrics are all computed from the predictions of that pass.
C7_OneForwardPass ==
    st.kind # "none" =>
        /\ st.passes = 1
        /\ st.pred_pass = 1
        /\ st.pred_w = st.w0
        /\ Cardinality({i \in 1..Len(st.trace) : st.trace[i] = "forward"}) = 1
        /\ \A c \in DOMAIN st.used : st.used[c] \in {0, 1}
        /\ StepDone =>
              /\ st.used["loss"] = 1
              /\ \A c \in {"compiled", "vector", "id"} : (c \in st.metrics.updated <=> st.used[c] = 1)

C7_Witness ==
    /\ StepDone
    /\ st.kind = "train"
    /\ weights = st.w0 + 1
    /\ st.pred_w = st.w0
    /\ st.metrics.updated = {"compiled", "vector", "id"}

(* --------------------- claims on the applied functions ----------------- *)
RECURSIVE IntDot(_, _)
IntDot(a, b) == IF a = <<>> THEN 0 ELSE Head(a) * Head(b) + IntDot(Tail(a), Tail(b))

\* the cosine of two integer vectors, 0 when one of them is zero
CosOf(a, b) ==
    IF SumSq(a) = 0 \/ SumSq(b) = 0 THEN <<0, 1>> ELSE Canon(IntDot(a, b), SumSq(a) * SumSq(b))

\* row j (0-based) of the vocabulary table of word model wm
TableRow(wm, j) == IF j < 2 THEN [k \in 1..NCols(wm.vectors) |-> 0] ELSE Row(wm.vectors, j - 1)

\* the 0-based index of the first largest score of each row of a score matrix
Top1(t) ==
    LET top(s) == CHOOSE i \in 0..(Len(s) - 1) :
                      /\ \A j \in 1..Len(s) : ~ScoreLess(s[i + 1], s[j])
                      /\ \A j \in 1..i : ScoreLess(s[j], s[i + 1])
    IN  Tensor(<<NRows(t)>>, [i \in 1..NRows(t) |-> top(Row(t, i))])

\* row i of a tensor once its leading axes are flattened
FlatRow(t, i) == SubSeq(t.data, (i - 1) * Last(t.shape) + 1, i * Last(t.shape))

FlatLen(t) == Prod(Front(t.shape))

UpdateMetricsDone == fn_in.op = "update_metrics" /\ fn_out.done

DerivesId == UpdateMetricsDone /\ "word_vec" \in DOMAIN fn_in.y /\ "word_id" \notin DOMAIN fn_in.y

\* derived is the matrix of the cosines of the flattened rows of src with
\* the rows of the table, and its row maxima are at nearest table rows
IsSimilarityOf(derived, src, wm) ==
    LET n == FlatLen(src)
        v == Len(wm.index2word) + 2
        top == Top1(derived)
    IN  /\ derived.shape = <<n, v>>
        /\ \A i \in 1..n : \A j \in 0..(v - 1) :
               At(derived, i, j + 1) = CosOf(FlatRow(src, i), TableRow(wm, j))
        /\ top.shape = <<n>>
        /\ \A i \in 1..n : \A j \in 0..(v - 1) :
               ~ScoreLess(CosOf(FlatRow(src, i), TableRow(wm, top.data[i])),
                          CosOf(FlatRow(src, i), TableRow(wm, j)))

\* C4 as stated: the word_id derived for the target and for the prediction
\* is the top-1 index of the similarity lookup, one index per flattened row.
C4_Original ==
    DerivesId =>
        LET m == fn_out.metrics
            idx(src) == Top1(word_vec2word(LoadVocab(fn_in.word_model), drop_batch(src)))
        IN  /\ m.y["word_id"].shape = <<FlatLen(fn_in.y["word_vec"])>>
            /\ m.y["word_id"] = idx(fn_in.y["word_vec"])
            /\ m.y_pred["word_id"].shape = <<FlatLen(fn_in.y_pred["word_vec"])>>
            /\ m.y_pred["word_id"] = idx(fn_in.y_pred["word_vec"])

\* C4 (amended): when the target has word_vec but not word_id, the word_id
\* derived for the target and for the prediction is, for each of them, the
\* [B*T, V+2] matrix of the cosine similarities of its own flattened word_vec
\* rows with the rows of the vocabulary table; the top-1 index is the
\* argmax of a row of that matrix and is not what is stored.
C4_DerivedIdIsSimilarityMatrix ==
    DerivesId =>
        LET m == fn_out.metrics
        IN  /\ IsSimilarityOf(m.y["word_id"], fn_in.y["word_vec"], fn_in.word_model)
            /\ IsSimilarityOf(m.y_pred["word_id"], fn_in.y_pred["word_vec"], fn_in.word_model)
            /\ m.y["word_vec"] = fn_in.y["word_vec"]
            /\ m.y_pred["word_vec"] = fn_in.y_pred["word_vec"]
            /\ m.id_args = <<m.y["word_id"], m.y_pred["word_id"]>>

C4_Witness ==
    /\ DerivesId
    /\ fn_out.metrics.y["word_id"].shape = <<MaxB * MaxT, MaxV + 2>>
    /\ fn_out.metrics.y["word_id"] # fn_out.metrics.y_pred["word_id"]
    /\ \E i \in 1..(MaxB * MaxT) : At(fn_out.metrics.y["word_id"], i, 3) = <<1, 1>>

Word2WordVecDone == fn_in.op = "word2word_vec" /\ fn_out.done

\* the largest f with f * RatioDen <= p * n: floor(ratio * n)
FloorRatio(p, n) == CHOOSE f \in 0..n : f * RatioDen <= p * n /\ p * n < (f + 1) * RatioDen

Min(a, b) == IF a < b THEN a ELSE b

\* the vector word model wm holds for word w
VectorOf(wm, w) == Row(wm.vectors, IndexOf(wm, w))

\* C8 as stated, at the ratios an AVSModel is built with (ratio > 0): of N
\* rows the first ratio * N are looked up, the others get a zero vector, and
\* the result has a vector for every one of the N rows.
C8_Original ==
    (Word2WordVecDone /\ fn_in.p > 0) =>
        LET N == NRows(fn_in.word)
            T == NCols(fn_in.word)
            f == FloorRatio(fn_in.p, N)
        IN  /\ fn_out.looked_up = f
            /\ NRows(fn_out.word_vec) = N * T
            /\ \A k \in (f * T + 1)..(N * T) : \A c \in 1..NCols(fn_out.word_vec) :
                   At(fn_out.word_vec, k, c) = 0

\* C8 (amended): of the N rows of a [N, T] word array the first
\* min(N, floor(ratio * N) + 1) are looked up, at least one; the result holds
\* one vector for each word of those rows, in order, and nothing for the
\* remaining rows: it has min(N, floor(ratio * N) + 1) * T rows.
C8_FirstRowsLookedUpRestDropped ==
    Word2WordVecDone =>
        LET N == NRows(fn_in.word)
            T == NCols(fn_in.word)
            used == Min(N, FloorRatio(fn_in.p, N) + 1)
        IN  /\ fn_out.looked_up = used
            /\ used >= 1
            /\ fn_out.word_vec.shape = <<used * T, Dim>>
            /\ ~fn_out.key_error =>
                  \A k \in 1..(used * T) :
                      Row(fn_out.word_vec, k) = VectorOf(fn_in.word_model, fn_in.word.data[k])

C8_Witness ==
    /\ Word2WordVecDone
    /\ ~fn_out.key_error
    /\ NRows(fn_in.word) = MaxRows
    /\ NCols(fn_in.word) = MaxT
    /\ fn_out.looked_up = (MaxRows \div 2) + 1
    /\ NRows(fn_out.word_vec) < MaxRows * MaxT

\* C9: with ratio 1 all N rows are handed to the lookup, for every N >= 1:
\* the result has a vector for every word of the array, in order.
C9_RatioOneUsesEveryRow ==
    (Word2WordVecDone /\ fn_in.p = RatioDen) =>
        LET N == NRows(fn_in.word)
            T == NCols(fn_in.word)
        IN  /\ fn_out.looked_up = N
            /\ NRows(fn_out.word_vec) = N * T
            /\ ~fn_out.key_error =>
                  \A k \in 1..(N * T) :
                      Row(fn_out.word_vec, k) = VectorOf(fn_in.word_model, fn_in.word.data[k])

C9_Witness ==
    /\ Word2WordVecDone
    /\ fn_in.p = RatioDen
    /\ ~fn_out.key_error
    /\ NRows(fn_in.word) = MaxRows
    /\ NCols(fn_in.word) = MaxT
    /\ NRows(fn_out.word_vec) = MaxRows * MaxT

\* a word model that has every word of the arrays, the absent one included
FullWordModel == KeyedVectors([i \in 1..(MaxV + 1) |-> i - 1], [i \in 1..(MaxV + 1) |-> 1])

\* C10: when the lookup raises KeyError, word2word_vec raises nothing and
\* returns zeros of the word model's width, with as many rows as the lookup
\* of the same rows returns in a word model that has all the words.
C10_KeyErrorGivesZeros ==
    (Word2WordVecDone /\ fn_out.key_error) =>
        LET ok == word2word_vec(LoadVocab(FullWordModel), fn_in.p, fn_in.word)
        IN  /\ ~fn_out.raised
            /\ ~ok.key_error
            /\ fn_out.word_vec.shape = <<NRows(ok.word_vec), NCols(fn_in.word_model.vectors)>>
            /\ \A k \in 1..Len(fn_out.word_vec.data) : fn_out.word_vec.data[k] = 0
            /\ Len(fn_out.word_vec.data) = NRows(ok.word_vec) * NCols(fn_in.word_model.vectors)

C10_Witness ==
    /\ Word2WordVecDone
    /\ fn_out.key_error
    /\ NCols(fn_in.word) = MaxT
    /\ fn_out.looked_up >= 2
    /\ fn_out.looked_up < NRows(fn_in.word)
    /\ NRows(fn_out.word_vec) = fn_out.looked_up * MaxT

RoundTripDone == fn_in.op = "round_trip" /\ fn_out.done

\* C11 as stated: the round trip of every table row returns that row.
C11_Original ==
    RoundTripDone => fn_out.back.data = fn_out.v.data

\* C11 (amended): the argmax of the similarity row of table row v is the
\* first table row of greatest cosine similarity with v, and looking it up
\* returns v up to a positive scale factor: v itself when v is zero (row 0
\* is returned) or when no earlier row is a different positive multiple of
\* v; when the first row parallel to v is a different multiple of v, that
\* row is returned instead of v.
C11_RoundTripReturnsFirstParallelRow ==
    RoundTripDone =>
        LET wm == fn_in.word_model
            j == fn_in.row
            v == TableRow(wm, j)
            k == fn_out.ids.data[1]
            parallel(i) == TableRow(wm, i) # v /\ SumSq(v) # 0 /\ CosOf(TableRow(wm, i), v) = <<1, 1>>
        IN  /\ fn_out.v.data = v
            /\ k \in 0..j
            /\ fn_out.back.shape = <<1, Dim>>
            /\ fn_out.back.data = TableRow(wm, k)
            /\ CosOf(TableRow(wm, k), v) = CosOf(v, v)
            /\ \A i \in 0..(k - 1) : ScoreLess(CosOf(TableRow(wm, i), v), CosOf(v, v))
            /\ SumSq(v) = 0 => k = 0
            /\ ~(\E i \in 0..(j - 1) : parallel(i)) => fn_out.back.data = v
            /\ fn_out.back.data # v => (k < j /\ parallel(k))

C11_Witness ==
    /\ RoundTripDone
    /\ fn_in.row = MaxV + 1
    /\ fn_out.ids.data[1] = MaxV + 1
    /\ SumSq(fn_out.v.data) # 0
    /\ fn_out.back = fn_out.v

(* ----------------------- claims on runs with save_model ---------------- *)
\* C12: the table of an AVSModel built on a word model of V vectors has V + 2
\* rows, rows 0 and 1 are reserved (zero) and vector i of the word model is
\* row i + 2; the word_id a step derives with word_vec2word is a full
\* [B*T, V+2] score matrix; no step or save changes the table.
C12_TableLayoutAndScoreMatrix ==
    model.cls = "AVSModel" =>
        LET wm == word_model_file
            V == Len(wm.index2word)
            t == model.vocab.embeddings
        IN  /\ t.shape = <<V + 2, NCols(wm.vectors)>>
            /\ \A c \in 1..NCols(t) : At(t, 1, c) = 0 /\ At(t, 2, c) = 0
            /\ \A i \in 1..V : Row(t, i + 2) = Row(wm.vectors, i)
            /\ model.vocab.normed_embeddings.shape = t.shape
            /\ StepDone =>
                  /\ st.metrics.y["word_id"].shape = <<seq.batch_size * seq.window, V + 2>>
                  /\ st.metrics.y_pred["word_id"].shape = <<seq.batch_size * seq.window, V + 2>>
                  /\ Len(st.metrics.y["word_id"].data) = seq.batch_size * seq.window * (V + 2)

C12_Witness ==
    /\ model.cls = "AVSModel"
    /\ Len(word_model_file.index2word) = MaxV
    /\ StepDone
    /\ steps = MaxSteps
    /\ stateful_model.built
    /\ seq.batch_size = MaxB

\* C13: the stateful model save_model produces has batch size 1, whatever
\* the training and generation batch sizes of the configuration were.
C13_StatefulBatchSizeOne ==
    stateful_model.built => stateful_model.model.batch_size = 1

\* C14: every LSTM layer of a model built with stateful=True is stateful.
C14_StatefulLstmLayers ==
    stateful_model.built =>
        /\ stateful_model.model.stateful
        /\ \A i \in 1..Len(stateful_model.model.lstm) : stateful_model.model.lstm[i]

\* C16: an artifact is written only after the weights were copied into the
\* stateful model, which takes tensors of the same count and shapes; when the
\* copy fails on a mismatch, save_model fails and neither artifact is written.
C16_NoArtifactWithoutWeightCopy ==
    /\ saved # {} =>
          /\ saved = {"model.keras", "stateful_model.keras"}
          /\ stateful_model.built
          /\ weight_shapes(stateful_model.model) = weight_shapes(model)
    /\ stateful_model.built => weight_shapes(stateful_model.model) = weight_shapes(model)
    /\ error = "ValueError" =>
          /\ saved = {}
          /\ ~stateful_model.built
          /\ pc = "failed"

C16_Witness ==
    /\ error = "ValueError"
    /\ pc = "failed"
    /\ saved = {}
    /\ model.cls = "AVSModel"
    /\ weights > 0

\* C17: the stateful model takes the weights the trained model has when
\* save_model copies them, and no later step changes the stateful model.
C17_StatefulWeightsAreSnapshot ==
    [][/\ (~stateful_model.built /\ stateful_model'.built) =>
             (stateful_model'.weights = weights /\ weights' = weights)
       /\ stateful_model.built => stateful_model' = stateful_model]_vars

C17_Witness ==
    /\ stateful_model.built
    /\ stateful_model.weights = 1
    /\ weights = MaxSteps
    /\ StepDone

\* C18: the weights change only in training steps: an evaluation step
\* leaves them as they were, a training step applies one update, after its
\* forward pass and loss and before its metric update, and nothing else
\* changes them.
C18_WeightsChangeOnlyInTrainStep ==
    LET isPrefix(a, b) == Len(a) <= Len(b) /\ a = SubSeq(b, 1, Len(a))
        minimized == \E i \in 1..Len(st.trace) : st.trace[i] = "minimize"
    IN  /\ st.kind = "none" => weights = 0
        /\ st.kind = "test" =>
              /\ weights = st.w0
              /\ isPrefix(st.trace, <<"forward", "loss", "update_metrics">>)
        /\ st.kind = "train" =>
              /\ weights = IF minimized THEN st.w0 + 1 ELSE st.w0
              /\ isPrefix(st.trace, <<"forward", "loss", "minimize", "update_metrics">>)
        /\ (st.kind # "none" /\ StepDone) => st.trace[Len(st.trace)] = "update_metrics"
        /\ weights <= steps + 1

C18_Witness ==
    /\ StepDone
    /\ st.kind = "test"
    /\ st.w0 = 1
    /\ weights = 1
    /\ steps = MaxSteps

\* C19: once save_model has returned, the process-wide policy is float32 and
\* the configuration's training batch size is 1, whatever they were before,
\* and they stay so in the training that follows; the stateful model was
\* built under float32.
C19_PolicyAndBatchSizeNotRestored ==
    stateful_model.built =>
        /\ stateful_model.policy = "float32"
        /\ policy = "float32"
        /\ config.batch_size = 1

C19_Witness ==
    /\ stateful_model.built
    /\ seq.batch_size = MaxB
    /\ config.generation_batch_size = MaxB
    /\ weights > stateful_model.weights
    /\ StepDone

(* ------------------ claims on the stateful model's calls --------------- *)
CausalDone == fn_in.op = "causal" /\ fn_out.done

\* C15: with the same weights and zero initial states, the stateful model
\* called once per step gives at each call the output the batch model gives
\* at that step of the whole window, for every architecture.
C15_StepwiseEqualsBatch ==
    CausalDone =>
        /\ Len(fn_out.stepwise) = Len(fn_out.batch)
        /\ \A t \in 1..Len(fn_in.xs) : fn_out.stepwise[t] = fn_out.batch[t]

====
